---- MODULE Spec2Model ----
(***************************************************************************)
(* Model of the bucket service of backend/: the Express handlers of        *)
(* controllers/bucketController.js and controllers/                        *)
(* userManagementController.js, the MinioAdmin helper, the Prisma tables   *)
(* User and Bucket, and the MinIO bucket store they drive.                 *)
(*                                                                         *)
(* Every `await` of a handler is one atomic step: the remote call takes    *)
(* effect and the handler runs on to its next remote call or to its        *)
(* response.  Handlers of different requests interleave between steps.     *)
(* Strings the code inspects are sequences of one-character strings.       *)
(***************************************************************************)
EXTENDS Integers, Sequences, FiniteSets, Bags, TLC

(***************************************************************************)
(* Bounds of the model.                                                    *)
(***************************************************************************)
MaxInFlight == 3   \* requests in flight at the same time
NumUsers == 2      \* rows of the User table

UserIds == 1..NumUsers
\* a user id carried by a token whose User row does not exist
StaleId == NumUsers + 1
TokenIds == 1..StaleId

(***************************************************************************)
(* Strings.                                                                *)
(***************************************************************************)
LowerLetters == <<"a","b","c","d","e","f","g","h","i","j","k","l","m",
                  "n","o","p","q","r","s","t","u","v","w","x","y","z">>
UpperLetters == <<"A","B","C","D","E","F","G","H","I","J","K","L","M",
                  "N","O","P","Q","R","S","T","U","V","W","X","Y","Z">>
Digits == {"0","1","2","3","4","5","6","7","8","9"}
Range(s) == {s[i] : i \in DOMAIN s}
LowerAlnum == Range(LowerLetters) \cup Digits
Alnum == LowerAlnum \cup Range(UpperLetters)

ToLowerChar(c) ==
  IF c \in Range(UpperLetters)
  THEN LowerLetters[CHOOSE i \in DOMAIN UpperLetters : UpperLetters[i] = c]
  ELSE c
ToLowerCase(s) == [i \in DOMAIN s |-> ToLowerChar(s[i])]
\* s.replace(/[^...]/g, '') : keep the characters of `keep`
Keep(s, keep) == SelectSeq(s, LAMBDA c : c \in keep)
Substring(s, from, to) == SubSeq(s, from + 1, IF to > Len(s) THEN Len(s) ELSE to)
StartsWith(s, prefix) ==
  /\ Len(prefix) <= Len(s)
  /\ SubSeq(s, 1, Len(prefix)) = prefix
IsSpace(c) == c \in {" "}
RECURSIVE TrimLeft(_)
TrimLeft(s) == IF s # <<>> /\ IsSpace(Head(s)) THEN TrimLeft(Tail(s)) ELSE s
RECURSIVE TrimRight(_)
TrimRight(s) ==
  IF s # <<>> /\ IsSpace(s[Len(s)]) THEN TrimRight(SubSeq(s, 1, Len(s) - 1)) ELSE s
Trim(s) == TrimRight(TrimLeft(s))

\* JSON.stringify and JSON.parse of a plain object
JSONstringify(v) == <<"json", v>>
JSONparse(s) == s[2]

(***************************************************************************)
(* bucketController.js: getUsernameFromEmail; userController.js:           *)
(* generateMinioCredentials.                                               *)
(***************************************************************************)
MinUsernameLen == 3
MaxUsernameLen == 20
getUsernameFromEmail(email) ==
  LET u0 == Keep(ToLowerCase(email), LowerAlnum)
      u1 == IF Len(u0) < MinUsernameLen THEN u0 \o <<"1","2","3">> ELSE u0
  IN  IF Len(u1) > MaxUsernameLen THEN Substring(u1, 0, MaxUsernameLen) ELSE u1

\* userManagementController.js 135-137 (also 24-27, 76-79): `username` is a
\* const, so the assignment that pads or truncates it throws a TypeError
UsernameThrows(email) ==
  LET u0 == Keep(ToLowerCase(email), LowerAlnum)
  IN  Len(u0) < MinUsernameLen \/ Len(u0) > MaxUsernameLen

MinSecretLen == 8
MaxSecretLen == 40
generateMinioCredentials(email, password) ==
  LET a0 == Keep(ToLowerCase(email), LowerAlnum)
      a1 == IF Len(a0) < MinUsernameLen THEN a0 \o <<"1","2","3">> ELSE a0
      accessKey == IF Len(a1) > MaxUsernameLen THEN Substring(a1, 0, MaxUsernameLen) ELSE a1
      s0 == Keep(password, Alnum)
      s1 == IF Len(s0) < MinSecretLen
            THEN s0 \o <<"1","2","3","4","5","6","7","8">> ELSE s0
      secretKey == IF Len(s1) > MaxSecretLen THEN Substring(s1, 0, MaxSecretLen) ELSE s1
  IN  [accessKey |-> accessKey, secretKey |-> secretKey]

\* bcrypt.hash(password, 12)
bcryptHash(password) == <<"bcrypt">> \o password

(***************************************************************************)
(* The requests' inputs.                                                   *)
(***************************************************************************)
Emails == << <<"a","l","@","x">>, <<"B","o","@","x">>, <<"c","y","@","x">>,
            <<"d","i","@","x">> >>
Passwords == << <<"p","w","1">>, <<"p","w","!","2">> >>
\* the row signup stores for a user (prisma.user.create)
UserRow(id, email, password) ==
  [id |-> id,
   email |-> ToLowerCase(email),
   passwordHash |-> bcryptHash(password),
   minioAccessKey |-> generateMinioCredentials(email, password).accessKey,
   minioSecretKey |-> generateMinioCredentials(email, password).secretKey]
EmailOf(id) == Emails[id]
\* the emails of the signup requests: a new one, the same in another letter
\* case, one that differs in a character the access key drops, one of
\* another user, and none
SignupEmails ==
  {<<"a","l","@","x">>, <<"A","L","@","x">>, <<"a",".","l","@","x">>,
   <<"B","o","@","x">>, <<>>}
PasswordOf(id) == Passwords[((id - 1) % Len(Passwords)) + 1]

\* bucket names of the requests: the first is valid, the second is not
GoodName == <<"a","l","x","-","d">>
BadName  == <<"-","d">>
Names == {GoodName}
RequestNames == Names \cup {BadName}

(***************************************************************************)
(* State.                                                                  *)
(***************************************************************************)
VARIABLES
  users,     \* the User table (prisma.user): a set of rows
  buckets,   \* the Bucket table (prisma.bucket): a set of rows [name, userId]
  minio,     \* the MinIO store: bucket name -> stored policy text (<<>>: none)
  inflight,  \* the requests being handled, each with where its handler is: a bag
  resp,      \* the HTTP response sent by the last step (NoResp: none was sent)
  recording, \* whether the history `faulted` is kept in this run
  faulted,   \* history: a remote call has failed for an external reason
  okCreates, \* history: per name, the 201 responses of createBucket
  okDeletes, \* history: per name, the 200 responses of deleteBucket
  sequential, \* whether the client sends a request only after the last answer
  last,      \* history of a sequential client: the last response it received
  prev       \* history of a sequential client: the response before `last`

vars == <<users, buckets, minio, inflight, resp, recording, faulted, okCreates,
          okDeletes, sequential, last, prev>>

NoPolicy == <<>>
NoRow == [id |-> 0]
NoResp == [op |-> "none", userId |-> 0, name |-> <<>>, status |-> 0,
           kind |-> "none", body |-> <<>>, rollback |-> "none"]
\* a request: pc is the remote call its handler makes next, user the User row
\* the handler has read, policy and todo the locals of updateUserPolicy
Request(pc, userId, name) ==
  [pc |-> pc, userId |-> userId, name |-> name, user |-> NoRow,
   policy |-> <<>>, todo |-> <<>>]

\* res.status(status).json(...): the response of request (op, userId, name).
\* rollback records what the swallowed compensation did ("none": not run).
Response(op, userId, name, status, kind, body, rollback) ==
  [op |-> op, userId |-> userId, name |-> name, status |-> status,
   kind |-> kind, body |-> body, rollback |-> rollback]

(***************************************************************************)
(* The Prisma tables.                                                      *)
(***************************************************************************)
\* a lookup that finds a row whatever the id
FindUser_Any(id) == users
\* prisma.user.findUnique({ where: { id } }): the rows found (none or one)
FindUser(id) == {u \in users : u.id = id}
\* a lookup by the email as the client sent it
FindUserByEmail_Exact(email) == {u \in users : u.email = email}
\* prisma.user.findUnique({ where: { email: email.toLowerCase() } })
FindUserByEmail(email) == {u \in users : u.email = ToLowerCase(email)}
\* the unique index User_email_key lets prisma.user.create insert the row
EmailFree(row) == \A u \in users : u.email # row.email
\* a User table without the unique index on minioAccessKey
AccessKeyFree_NoIndex(row) == TRUE
\* the unique index User_minioAccessKey_key lets it insert the row
AccessKeyFree(row) == \A u \in users : u.minioAccessKey # row.minioAccessKey
\* the id prisma.user.create gives the new row: one no row has
NewUserId == Cardinality(users) + 1
\* a lookup that finds no row
FindBucket_None(name) == {}
\* prisma.bucket.findUnique({ where: { name } })
FindBucket(name) == {b \in buckets : b.name = name}
\* prisma.bucket.findMany({ where: { userId } })
\* a findMany without the where clause
FindBucketsOf_All(userId) == buckets
FindBucketsOf(userId) == {b \in buckets : b.userId = userId}
\* the unique index Bucket_name_key lets prisma.bucket.create insert the row
\* a registry without the unique index on Bucket.name
CanInsertBucket_NoIndex(name) == TRUE
CanInsertBucket(name) == FindBucket(name) = {}
\* a row that names the first user as the owner, whoever asked
BucketRow_Fixed(name, userId) == [name |-> name, userId |-> 1]
\* data: { name, userId }
BucketRow(name, userId) == [name |-> name, userId |-> userId]
\* include: { user: true }
WithUser(row) == [name |-> row.name, userId |-> row.userId,
                  user |-> CHOOSE u \in users : u.id = row.userId]

(***************************************************************************)
(* The MinIO client (minioAdmin.minioAdmin).                               *)
(***************************************************************************)
bucketExists(name) == name \in DOMAIN minio
\* a store whose makeBucket accepts a name it already holds
CanMakeBucket_Idempotent(name) == TRUE
\* makeBucket(name, 'us-east-1') succeeds only for a name not yet in the store
CanMakeBucket(name) == ~bucketExists(name)
makeBucket(name) == [n \in DOMAIN minio \cup {name} |->
                       IF n = name THEN NoPolicy ELSE minio[n]]
\* setBucketPolicy(name, text) needs the bucket
CanSetBucketPolicy(name) == bucketExists(name)
setBucketPolicy(name, text) == [minio EXCEPT ![name] = text]
\* a store whose removeBucket leaves the bucket where it is
removeBucket_Keep(name) == minio
\* removeBucket(name) needs the bucket; the policy goes with it
CanRemoveBucket(name) == bucketExists(name)
removeBucket(name) == [n \in DOMAIN minio \ {name} |-> minio[n]]
\* getBucketPolicy(name) needs the bucket and a policy on it
CanGetBucketPolicy(name) == bucketExists(name) /\ minio[name] # NoPolicy
\* listBuckets(): the names in the store
listBuckets == DOMAIN minio

(***************************************************************************)
(* Policies.                                                               *)
(***************************************************************************)
Arn(name) == <<"arn:aws:s3:::">> \o name
ArnObjects(name) == Arn(name) \o <<"/", "*">>
ObjectActions == <<"s3:GetObject", "s3:PutObject", "s3:DeleteObject", "s3:ListBucket">>
\* the policy createBucket builds for `name` and the owner's access key
OwnerPolicy(accessKey, name) ==
  [Version |-> "2012-10-17",
   Statement |-> << [Effect |-> "Allow",
                     Principal |-> [AWS |-> <<accessKey>>],
                     Action |-> ObjectActions,
                     Resource |-> <<Arn(name), ArnObjects(name)>>] >>]
\* a policy a client may send to PUT /api/user-management/policy: everybody
PublicPolicy(name) ==
  [Version |-> "2012-10-17",
   Statement |-> << [Effect |-> "Allow",
                     Principal |-> [AWS |-> << <<"*">> >>],
                     Action |-> ObjectActions,
                     Resource |-> <<Arn(name), ArnObjects(name)>>] >>]

(***************************************************************************)
(* bucketController.js: getValidationRules.                                *)
(***************************************************************************)
MinNameLen == 3
MaxNameLen == 63
\* a pattern without the anchors on the first and the last character
MatchesNamePattern_Loose(s) ==
  \A i \in DOMAIN s : s[i] \in LowerAlnum \cup {"-"}
\* /^[a-z0-9][a-z0-9-]*[a-z0-9]$/
MatchesNamePattern(s) ==
  /\ Len(s) >= 2
  /\ s[1] \in LowerAlnum
  /\ s[Len(s)] \in LowerAlnum
  /\ \A i \in 2..(Len(s) - 1) : s[i] \in LowerAlnum \cup {"-"}
\* body('name').isString().trim().isLength({ min: 3, max: 63 }).matches(...)
ValidName(name) ==
  /\ Len(Trim(name)) >= MinNameLen
  /\ Len(Trim(name)) <= MaxNameLen
  /\ MatchesNamePattern(Trim(name))

(***************************************************************************)
(* Steps of a request.  Begin(q): a handler starts and goes on to the      *)
(* remote call q.pc; Reply(r): it sends r at once; Goto(q, s): the handler *)
(* at q goes on to s; Finish(q, r): it sends r and ends.                   *)
(***************************************************************************)
One(q) == SetToBag({q})
InFlight == BagToSet(inflight)
HasRoom == BagCardinality(inflight) < (IF sequential THEN 1 ELSE MaxInFlight)
Begin(q) ==
  /\ inflight' = inflight (+) One(q)
  /\ resp' = NoResp
Reply(r) ==
  /\ inflight' = inflight
  /\ resp' = r
Goto(q, s) ==
  /\ inflight' = (inflight (-) One(q)) (+) One(s)
  /\ resp' = NoResp
\* a handler that ends without sending its response
Finish_Silent(q, r) ==
  /\ inflight' = inflight (-) One(q)
  /\ resp' = NoResp
Finish(q, r) ==
  /\ inflight' = inflight (-) One(q)
  /\ resp' = r
At(q, pc) == q \in InFlight /\ q.pc = pc

\* the histories.  faulted: a step with an injected failure (kept while
\* recording; of a sequential client, a step of its latest request);
\* okCreates: the 201 responses for a name since its row was last deleted;
\* okDeletes (kept while recording): the 200 responses of deletes of a name
\* since a delete of the name last passed its ownership check, all of them
\* deletes that were in flight together;
\* last, prev: the last two responses a sequential client received (prev
\* is kept while recording)
History(fault) ==
  /\ recording' = recording
  /\ sequential' = sequential
  /\ faulted' = \/ recording /\ fault
                \/ faulted /\ ~(sequential /\ inflight = EmptyBag)
  /\ last' = IF sequential /\ resp' # NoResp THEN resp' ELSE last
  /\ prev' = IF recording /\ sequential /\ resp' # NoResp THEN last ELSE prev
  /\ okCreates' = [n \in Names |->
                     IF resp'.kind = "Created" /\ resp'.name = n THEN okCreates[n] + 1
                     ELSE IF resp'.kind = "Deleted" /\ resp'.name = n THEN 0
                     ELSE okCreates[n]]
  /\ okDeletes' = [n \in Names |->
                     IF ~recording THEN okDeletes[n]
                     ELSE IF \E q \in BagToSet(inflight') :
                               /\ q.pc = "d_remove" /\ q.name = n
                               /\ CopiesIn(q, inflight') > CopiesIn(q, inflight)
                     THEN 0
                     ELSE IF resp'.kind = "Deleted" /\ resp'.name = n
                     THEN okDeletes[n] + 1
                     ELSE okDeletes[n]]

(***************************************************************************)
(* bucketController.js: createBucket.                                      *)
(***************************************************************************)
CreateResponse(q, status, kind, body, rollback) ==
  Response("create", q.userId, q.name, status, kind, body, rollback)

\* lines 44-68: validation, then prisma.bucket.findUnique({ where: { name } })
CreateStart(userId, rawName, fault) ==
  /\ HasRoom
  /\ LET q == Request("c_user", userId, Trim(rawName)) IN
       IF ~ValidName(rawName)
       THEN Reply(CreateResponse(q, 400, "ValidationError", <<>>, "none"))
       ELSE IF fault
       THEN Reply(CreateResponse(q, 500, "CreateFailed", <<>>, "none"))
       ELSE IF FindBucket(q.name) # {}
       THEN Reply(CreateResponse(q, 409, "NameConflict", <<>>, "none"))
       ELSE Begin(q)
  /\ UNCHANGED <<users, buckets, minio>>
  /\ History(fault)

\* lines 70-80: prisma.user.findUnique({ where: { id: userId } })
CreateUser(q, fault) ==
  /\ At(q, "c_user")
  /\ IF fault
     THEN Finish(q, CreateResponse(q, 500, "CreateFailed", <<>>, "none"))
     ELSE IF FindUser(q.userId) = {}
     THEN Finish(q, CreateResponse(q, 404, "UserNotFound", <<>>, "none"))
     ELSE Goto(q, [q EXCEPT !.pc = "c_make",
                            !.user = CHOOSE u \in FindUser(q.userId) : TRUE])
  /\ UNCHANGED <<users, buckets, minio>>
  /\ History(fault)

\* lines 82-92: minioAdmin.minioAdmin.makeBucket(name, 'us-east-1')
CreateMake(q, fault) ==
  /\ At(q, "c_make")
  /\ IF fault \/ ~CanMakeBucket(q.name)
     THEN /\ Finish(q, CreateResponse(q, 500, "StorageCreateFailed", <<>>, "none"))
          /\ UNCHANGED minio
     ELSE /\ minio' = makeBucket(q.name)
          /\ Goto(q, [q EXCEPT !.pc = "c_policy"])
  /\ UNCHANGED <<users, buckets>>
  /\ History(fault)

\* lines 94-116: the policy, then setBucketPolicy(name, JSON.stringify(policy))
CreatePolicy(q, fault) ==
  /\ At(q, "c_policy")
  /\ LET policy == OwnerPolicy(q.user.minioAccessKey, q.name) IN
       IF fault \/ ~CanSetBucketPolicy(q.name)
       THEN /\ Goto(q, [q EXCEPT !.pc = "c_policy_rb"])
            /\ UNCHANGED minio
       ELSE /\ minio' = setBucketPolicy(q.name, JSONstringify(policy))
            /\ Goto(q, [q EXCEPT !.pc = "c_insert"])
  /\ UNCHANGED <<users, buckets>>
  /\ History(fault)

\* try { await removeBucket(name) } catch (e) {} : what the compensation does
\* a rollback that issues no removeBucket
Rollback_Skip(name, fault) == minio
Rollback(name, fault) ==
  IF fault \/ ~CanRemoveBucket(name) THEN minio ELSE removeBucket(name)
RollbackResult(name, fault) ==
  IF fault \/ ~CanRemoveBucket(name) THEN "failed" ELSE "ok"

\* a handler that goes on to the insert after the rollback (no `return`)
CreatePolicyRollback_FallThrough(q, fault) ==
  /\ At(q, "c_policy_rb")
  /\ minio' = Rollback(q.name, fault)
  /\ Goto(q, [q EXCEPT !.pc = "c_insert"])
  /\ UNCHANGED <<users, buckets>>
  /\ History(fault)
\* a handler that reports the failure of its rollback instead
CreatePolicyRollback_Surface(q, fault) ==
  /\ At(q, "c_policy_rb")
  /\ minio' = Rollback(q.name, fault)
  /\ Finish(q, CreateResponse(q, 500,
                              IF RollbackResult(q.name, fault) = "failed"
                              THEN "RollbackFailed" ELSE "PolicySetFailed",
                              <<>>, RollbackResult(q.name, fault)))
  /\ UNCHANGED <<users, buckets>>
  /\ History(fault)
\* lines 116-125: the rollback after a failed setBucketPolicy, then the 500
CreatePolicyRollback(q, fault) ==
  /\ At(q, "c_policy_rb")
  /\ minio' = Rollback(q.name, fault)
  /\ Finish(q, CreateResponse(q, 500, "PolicySetFailed", <<>>,
                              RollbackResult(q.name, fault)))
  /\ UNCHANGED <<users, buckets>>
  /\ History(fault)

\* a handler that answers the failed insert without the rollback
CreateInsert_NoRollback(q, fault) ==
  /\ At(q, "c_insert")
  /\ LET row == BucketRow(q.name, q.userId) IN
       IF fault \/ ~CanInsertBucket(q.name)
       THEN /\ Finish(q, CreateResponse(q, 500, "RegistrationFailed", <<>>, "none"))
            /\ UNCHANGED buckets
       ELSE /\ buckets' = buckets \cup {row}
            /\ Finish(q, CreateResponse(q, 201, "Created", WithUser(row), "none"))
  /\ UNCHANGED <<users, minio>>
  /\ History(fault)
\* lines 127-152: prisma.bucket.create, and the 201 when it succeeds
CreateInsert(q, fault) ==
  /\ At(q, "c_insert")
  /\ LET row == BucketRow(q.name, q.userId) IN
       IF fault \/ ~CanInsertBucket(q.name)
       THEN /\ Goto(q, [q EXCEPT !.pc = "c_insert_rb"])
            /\ UNCHANGED buckets
       ELSE /\ buckets' = buckets \cup {row}
            /\ Finish(q, CreateResponse(q, 201, "Created", WithUser(row), "none"))
  /\ UNCHANGED <<users, minio>>
  /\ History(fault)

\* lines 137-146: the rollback after a failed prisma.bucket.create, then the 500
CreateInsertRollback(q, fault) ==
  /\ At(q, "c_insert_rb")
  /\ minio' = Rollback(q.name, fault)
  /\ Finish(q, CreateResponse(q, 500, "RegistrationFailed", <<>>,
                              RollbackResult(q.name, fault)))
  /\ UNCHANGED <<users, buckets>>
  /\ History(fault)

(***************************************************************************)
(* bucketController.js: deleteBucket.                                      *)
(***************************************************************************)
DeleteResponse(q, status, kind) ==
  Response("delete", q.userId, q.name, status, kind, <<>>, "none")

\* the check of line 179: the row found is the caller's
\* a lookup that accepts any row of the name
OwnedBy_AnyRow(found, userId) == found # {}
OwnedBy(found, userId) == found # {} /\ \A b \in found : b.userId = userId

\* lines 164-184: no validation chain on the route; prisma.bucket.findUnique
DeleteStart(userId, name, fault) ==
  /\ HasRoom
  /\ LET q == Request("d_remove", userId, name) IN
       IF fault
       THEN Reply(DeleteResponse(q, 500, "DeleteFailed"))
       ELSE IF ~OwnedBy(FindBucket(name), userId)
       THEN Reply(DeleteResponse(q, 404, "NotFoundOrNotOwned"))
       ELSE Begin(q)
  /\ UNCHANGED <<users, buckets, minio>>
  /\ History(fault)

\* a handler that goes on to the row after a failed removeBucket
DeleteRemove_GoOn(q, fault) ==
  /\ At(q, "d_remove")
  /\ minio' = IF fault \/ ~CanRemoveBucket(q.name) THEN minio
              ELSE removeBucket(q.name)
  /\ Goto(q, [q EXCEPT !.pc = "d_delete"])
  /\ UNCHANGED <<users, buckets>>
  /\ History(fault)
\* lines 186-196: minioAdmin.minioAdmin.removeBucket(name)
DeleteRemove(q, fault) ==
  /\ At(q, "d_remove")
  /\ IF fault \/ ~CanRemoveBucket(q.name)
     THEN /\ Finish(q, DeleteResponse(q, 500, "StorageDeleteFailed"))
          /\ UNCHANGED minio
     ELSE /\ minio' = removeBucket(q.name)
          /\ Goto(q, [q EXCEPT !.pc = "d_delete"])
  /\ UNCHANGED <<users, buckets>>
  /\ History(fault)

\* lines 198-213: prisma.bucket.delete({ where: { name } }), and the 200
DeleteRow(q, fault) ==
  /\ At(q, "d_delete")
  /\ IF fault \/ FindBucket(q.name) = {}
     THEN /\ Finish(q, DeleteResponse(q, 500, "RegistrationDeleteFailed"))
          /\ UNCHANGED buckets
     ELSE /\ buckets' = buckets \ FindBucket(q.name)
          /\ Finish(q, DeleteResponse(q, 200, "Deleted"))
  /\ UNCHANGED <<users, minio>>
  /\ History(fault)

(***************************************************************************)
(* bucketController.js: getBucketPolicy and getUserBuckets.  One remote    *)
(* call each, so one step each.                                            *)
(***************************************************************************)
\* a handler that answers a default policy for a bucket without one
GetBucketPolicy_Default(userId, name, fault) ==
  /\ HasRoom
  /\ Reply(IF name = <<>>
           THEN Response("policy", userId, name, 400, "NameRequired", <<>>, "none")
           ELSE IF fault \/ ~CanGetBucketPolicy(name)
           THEN Response("policy", userId, name, 200, "Policy",
                         PublicPolicy(name), "none")
           ELSE Response("policy", userId, name, 200, "Policy",
                         JSONparse(minio[name]), "none"))
  /\ UNCHANGED <<users, buckets, minio>>
  /\ History(fault)
\* a handler that waits until no request for the name is being handled
GetBucketPolicy_Serial(userId, name, fault) ==
  /\ HasRoom
  /\ \A q \in InFlight : q.name # name
  /\ Reply(IF name = <<>>
           THEN Response("policy", userId, name, 400, "NameRequired", <<>>, "none")
           ELSE IF fault \/ ~CanGetBucketPolicy(name)
           THEN Response("policy", userId, name, 404, "PolicyNotFound", <<>>, "none")
           ELSE Response("policy", userId, name, 200, "Policy",
                         JSONparse(minio[name]), "none"))
  /\ UNCHANGED <<users, buckets, minio>>
  /\ History(fault)
\* lines 225-241
GetBucketPolicy(userId, name, fault) ==
  /\ HasRoom
  /\ Reply(IF name = <<>>
           THEN Response("policy", userId, name, 400, "NameRequired", <<>>, "none")
           ELSE IF fault \/ ~CanGetBucketPolicy(name)
           THEN Response("policy", userId, name, 404, "PolicyNotFound", <<>>, "none")
           ELSE Response("policy", userId, name, 200, "Policy",
                         JSONparse(minio[name]), "none"))
  /\ UNCHANGED <<users, buckets, minio>>
  /\ History(fault)

\* lines 19-41
GetUserBuckets(userId, fault) ==
  /\ HasRoom
  /\ Reply(IF fault
           THEN Response("list", userId, <<>>, 500, "ListFailed", <<>>, "none")
           ELSE Response("list", userId, <<>>, 200, "Buckets",
                         {WithUser(b) : b \in FindBucketsOf(userId)}, "none"))
  /\ UNCHANGED <<users, buckets, minio>>
  /\ History(fault)

(***************************************************************************)
(* helpers/minio-admin.js (MinioAdmin) and userManagementController.js:    *)
(* updateUserPolicy.                                                       *)
(***************************************************************************)
\* MinioAdmin.getUserBuckets: the listed buckets whose name starts with
\* `${username}-`
UserBucketNames(username) ==
  {n \in listBuckets : StartsWith(n, username \o <<"-">>)}
\* the listed buckets in the order the loop of updateUserPolicy visits them
RECURSIVE SeqOfSet(_)
SeqOfSet(S) ==
  IF S = {} THEN <<>>
  ELSE LET x == CHOOSE y \in S : TRUE IN <<x>> \o SeqOfSet(S \ {x})

UpdateResponse(q, status, kind) ==
  Response("updatePolicy", q.userId, <<>>, status, kind, <<>>, "none")

\* the policies a client sends in the body (<<>>: none)
PolicyInputs == {<<>>} \cup {PublicPolicy(n) : n \in Names}

\* userManagementController.js lines 111-137: the body, prisma.user.findUnique,
\* then the username, a const as in getUserInfo: the correction of a username
\* that is too short or too long throws, and the catch (158-165) answers 500
UpdatePolicyStart(userId, policy, fault) ==
  /\ HasRoom
  /\ LET q == [Request("u_list", userId, <<>>) EXCEPT !.policy = policy] IN
       IF policy = <<>>
       THEN Reply(UpdateResponse(q, 400, "PolicyRequired"))
       ELSE IF fault
       THEN Reply(UpdateResponse(q, 500, "InternalError"))
       ELSE IF FindUser(userId) = {}
       THEN Reply(UpdateResponse(q, 404, "UserNotFound"))
       ELSE LET user == CHOOSE u \in FindUser(userId) : TRUE IN
              IF UsernameThrows(user.email)
              THEN Reply(UpdateResponse(q, 500, "InternalError"))
              ELSE Begin([q EXCEPT !.user = user])
  /\ UNCHANGED <<users, buckets, minio>>
  /\ History(fault)

\* lines 139-140 and MinioAdmin.updateUserPolicy -> getUserBuckets: the listing
UpdatePolicyList(q, fault) ==
  /\ At(q, "u_list")
  /\ LET username == Keep(ToLowerCase(q.user.email), LowerAlnum)
         userBuckets == SeqOfSet(UserBucketNames(username))
     IN  IF fault \/ Len(userBuckets) = 0
         THEN Finish(q, UpdateResponse(q, 500, "UpdatePolicyFailed"))
         ELSE Goto(q, [q EXCEPT !.pc = "u_set", !.todo = userBuckets])
  /\ UNCHANGED <<users, buckets, minio>>
  /\ History(fault)

\* MinioAdmin.updateUserPolicy: one turn of the loop,
\* setBucketPolicy(bucket.name, JSON.stringify(policy)); after the last, the 200
UpdatePolicySet(q, fault) ==
  /\ At(q, "u_set")
  /\ LET name == Head(q.todo) IN
       IF fault \/ ~CanSetBucketPolicy(name)
       THEN /\ Finish(q, UpdateResponse(q, 500, "UpdatePolicyFailed"))
            /\ UNCHANGED minio
       ELSE /\ minio' = setBucketPolicy(name, JSONstringify(q.policy))
            /\ IF Len(q.todo) = 1
               THEN Finish(q, UpdateResponse(q, 200, "PolicyUpdated"))
               ELSE Goto(q, [q EXCEPT !.todo = Tail(q.todo)])
  /\ UNCHANGED <<users, buckets>>
  /\ History(fault)

(***************************************************************************)
(* userController.js: signup.  The response carries the email as sent in   *)
(* its name field.  bcrypt.hash and MinioAdmin.createUser make no remote   *)
(* call and change nothing; createUser always succeeds.                    *)
(***************************************************************************)
SignupResponse(q, status, kind, body) ==
  Response("signup", q.userId, q.name, status, kind, body, "none")

\* lines 95-125: the email, then prisma.user.findUnique by the lower-cased email
SignupStart(email, password, fault) ==
  /\ HasRoom
  /\ LET q == [Request("s_create", 0, email) EXCEPT
                !.user = UserRow(0, email, password)] IN
       IF email = <<>>
       THEN Reply(SignupResponse(q, 400, "EmailRequired", <<>>))
       ELSE IF fault
       THEN Reply(SignupResponse(q, 500, "InternalError", <<>>))
       ELSE IF FindUserByEmail(email) # {}
       THEN Reply(SignupResponse(q, 409, "UserExists", <<>>))
       ELSE Begin(q)
  /\ UNCHANGED <<users, buckets, minio>>
  /\ History(fault)

\* lines 128-157: the hash, the credentials, createMinioUser, prisma.user.create
SignupCreate(q, fault) ==
  /\ At(q, "s_create")
  /\ LET row == [q.user EXCEPT !.id = NewUserId] IN
       IF fault \/ ~EmailFree(row) \/ ~AccessKeyFree(row)
       THEN /\ Finish(q, SignupResponse(q, 500, "InternalError", <<>>))
            /\ UNCHANGED users
       ELSE /\ users' = users \cup {row}
            /\ Goto(q, [q EXCEPT !.pc = "s_policy", !.userId = row.id,
                                 !.user = row])
  /\ UNCHANGED <<buckets, minio>>
  /\ History(fault)

\* a signup that ends by making the user's default bucket
\* (MinioAdmin.createUserBucket, which no handler calls)
SignupPolicy_WithBucket(q, fault) ==
  /\ At(q, "s_policy")
  /\ IF fault
     THEN /\ Finish(q, SignupResponse(q, 500, "PolicyCreateFailed", <<>>))
          /\ UNCHANGED minio
     ELSE /\ Finish(q, SignupResponse(q, 201, "SignedUp",
                      [id |-> q.user.id, email |-> q.user.email,
                       minioAccessKey |-> q.user.minioAccessKey]))
          /\ minio' = makeBucket(getUsernameFromEmail(q.user.email)
                                 \o <<"-","d","e","f","a","u","l","t">>)
  /\ UNCHANGED <<users, buckets>>
  /\ History(fault)
\* lines 159-176 and createMinioPolicy (52-92): prisma.bucket.findMany, then
\* MinioAdmin.createPolicy, which stores nothing; the 201 without the hash and
\* the secret key
SignupPolicy(q, fault) ==
  /\ At(q, "s_policy")
  /\ IF fault
     THEN Finish(q, SignupResponse(q, 500, "PolicyCreateFailed", <<>>))
     ELSE Finish(q, SignupResponse(q, 201, "SignedUp",
                   [id |-> q.user.id, email |-> q.user.email,
                    minioAccessKey |-> q.user.minioAccessKey]))
  /\ UNCHANGED <<users, buckets, minio>>
  /\ History(fault)

(***************************************************************************)
(* userController.js: login.  One remote call, prisma.user.findUnique;     *)
(* bcrypt.compare and jwt.sign are local.                                  *)
(***************************************************************************)
\* a login request whose body has no password: req.body.password is undefined
NoPassword == <<"undefined">>
\* the passwords of the login requests: those of the users, and none
LoginPasswords == {PasswordOf(id) : id \in UserIds} \cup {NoPassword}
\* bcrypt.compare(password, hash) of bcryptjs rejects when the password is
\* not a string ("Illegal arguments: undefined, string")
bcryptCompareThrows(password) == password = NoPassword
\* bcrypt.compare(password, hash)
bcryptCompare(password, hash) == hash = bcryptHash(password)
\* jwt.sign(payload, secret, { expiresIn })
jwtSign(payload) == <<"jwt", payload>>
\* const { passwordHash, minioSecretKey, ...userResponse } = user
userResponse(user) ==
  [id |-> user.id, email |-> user.email, minioAccessKey |-> user.minioAccessKey]

LoginResponse(email, status, kind, body) ==
  Response("login", 0, email, status, kind, body, "none")

\* lines 188-260
Login(email, password, fault) ==
  /\ HasRoom
  /\ Reply(IF email = <<>>
           THEN LoginResponse(email, 400, "EmailRequired", <<>>)
           ELSE IF fault
           THEN LoginResponse(email, 500, "InternalError", <<>>)
           ELSE IF FindUserByEmail(email) = {}
           THEN LoginResponse(email, 401, "InvalidCredentials", <<>>)
           ELSE LET user == CHOOSE u \in FindUserByEmail(email) : TRUE IN
                  IF bcryptCompareThrows(password)
                  THEN LoginResponse(email, 500, "InternalError", <<>>)
                  ELSE IF ~bcryptCompare(password, user.passwordHash)
                  THEN LoginResponse(email, 401, "InvalidCredentials", <<>>)
                  ELSE LoginResponse(email, 200, "LoggedIn",
                         [user |-> userResponse(user),
                          token |-> jwtSign([userId |-> user.id,
                                             email |-> user.email,
                                             minioAccessKey |-> user.minioAccessKey])]))
  /\ UNCHANGED <<users, buckets, minio>>
  /\ History(fault)

(***************************************************************************)
(* userManagementController.js: getUserInfo, getUserPolicy, listAllUsers,  *)
(* and the MinioAdmin methods they call.  Each handler awaits its Prisma   *)
(* lookup and then one MinioAdmin method, which only reads the store.      *)
(***************************************************************************)
\* lines 24-27 and 76-79: the username of getUserInfo and getUserPolicy.
\* `username` is a const, so either correction (too short, too long) throws
UsernameOf(email) ==
  LET u0 == Keep(ToLowerCase(email), LowerAlnum) IN
    [threw |-> Len(u0) < MinUsernameLen \/ Len(u0) > MaxUsernameLen,
     value |-> u0]

\* MinioAdmin.getUserPolicy: `${username}-default`
DefaultBucket(name) == name \o <<"-","d","e","f","a","u","l","t">>
AdminActions == ObjectActions \o <<"s3:CreateBucket", "s3:DeleteBucket">>
\* the policy MinioAdmin.getUserPolicy answers for a bucket without one
DefaultUserPolicy(name) ==
  [Version |-> "2012-10-17",
   Statement |-> << [Effect |-> "Allow",
                     Principal |-> [AWS |-> << <<"*">> >>],
                     Action |-> AdminActions,
                     Resource |-> <<Arn(name \o <<"-","*">>),
                                    Arn(name \o <<"-","*","/","*">>)>>] >>]
\* MinioAdmin.getUserPolicy(username): bucketExists, then getBucketPolicy
MinioGetUserPolicy(name) ==
  IF ~bucketExists(DefaultBucket(name))
  THEN [success |-> FALSE, policy |-> <<>>]
  ELSE IF CanGetBucketPolicy(DefaultBucket(name))
  THEN [success |-> TRUE, policy |-> JSONparse(minio[DefaultBucket(name)])]
  ELSE [success |-> TRUE, policy |-> DefaultUserPolicy(name)]
\* MinioAdmin.getUserInfo(username): the user of a successful result; the
\* store of the model holds no objects
MinioGetUserInfo(name) ==
  [username |-> name,
   buckets |-> UserBucketNames(name),
   totalObjectCount |-> 0,
   policy |-> IF MinioGetUserPolicy(name).success
              THEN MinioGetUserPolicy(name).policy ELSE <<>>]

\* { ...userResponse, minio }
WithMinio(user, info) ==
  [id |-> user.id, email |-> user.email, minioAccessKey |-> user.minioAccessKey,
   minio |-> info]

ManageResponse(op, q, status, kind, body) ==
  Response(op, q.userId, <<>>, status, kind, body, "none")

\* the lookup the three handlers of a user start with (lines 10-27, 62-79):
\* prisma.user.findUnique({ where: { id: userId } }), then the username
ManageStart(op, pc, userId, fault) ==
  /\ HasRoom
  /\ LET q == Request(pc, userId, <<>>) IN
       IF fault
       THEN Reply(ManageResponse(op, q, 500, "InternalError", <<>>))
       ELSE IF FindUser(userId) = {}
       THEN Reply(ManageResponse(op, q, 404, "UserNotFound", <<>>))
       ELSE LET user == CHOOSE u \in FindUser(userId) : TRUE IN
              IF UsernameOf(user.email).threw
              THEN Reply(ManageResponse(op, q, 500, "InternalError", <<>>))
              ELSE Begin([q EXCEPT !.user = user])
  /\ UNCHANGED <<users, buckets, minio>>
  /\ History(fault)

\* getUserInfo, lines 8-27
GetUserInfo(userId, fault) == ManageStart("info", "i_info", userId, fault)
\* getUserInfo, lines 29-49: minioAdmin.getUserInfo(username) and the answer
GetUserInfoMinio(q, fault) ==
  /\ At(q, "i_info")
  /\ IF fault
     THEN Finish(q, ManageResponse("info", q, 500, "InfoFailed", <<>>))
     ELSE Finish(q, ManageResponse("info", q, 200, "Info",
                   WithMinio(q.user,
                             MinioGetUserInfo(UsernameOf(q.user.email).value))))
  /\ UNCHANGED <<users, buckets, minio>>
  /\ History(fault)

\* getUserPolicy, lines 60-79
GetUserPolicy(userId, fault) == ManageStart("userPolicy", "p_policy", userId, fault)
\* getUserPolicy, lines 81-98: minioAdmin.getUserPolicy(username) and the answer
GetUserPolicyMinio(q, fault) ==
  /\ At(q, "p_policy")
  /\ LET name == UsernameOf(q.user.email).value IN
       IF fault \/ ~MinioGetUserPolicy(name).success
       THEN Finish(q, ManageResponse("userPolicy", q, 500, "UserPolicyFailed", <<>>))
       ELSE Finish(q, ManageResponse("userPolicy", q, 200, "UserPolicy",
                     [username |-> name,
                      policy |-> MinioGetUserPolicy(name).policy]))
  /\ UNCHANGED <<users, buckets, minio>>
  /\ History(fault)

\* listAllUsers, lines 166-176: prisma.user.findMany({ select: ... })
ListAllUsers(userId, fault) ==
  /\ HasRoom
  /\ LET q == Request("l_info", userId, <<>>) IN
       IF fault
       THEN Reply(ManageResponse("listUsers", q, 500, "InternalError", <<>>))
       ELSE Begin([q EXCEPT !.todo = SeqOfSet({userResponse(u) : u \in users})])
  /\ UNCHANGED <<users, buckets, minio>>
  /\ History(fault)
\* listAllUsers, lines 178-197: Promise.all of minioAdmin.getUserInfo for each
\* user (a failed one gives minio: null), and the answer
ListAllUsersMinio(q, fault) ==
  /\ At(q, "l_info")
  /\ Finish(q, ManageResponse("listUsers", q, 200, "Users",
               [i \in DOMAIN q.todo |->
                  WithMinio(q.todo[i],
                            IF fault THEN <<>>
                            ELSE MinioGetUserInfo(getUsernameFromEmail(q.todo[i].email)))]))
  /\ UNCHANGED <<users, buckets, minio>>
  /\ History(fault)

(***************************************************************************)
(* The service.                                                            *)
(***************************************************************************)
\* the service with the users `ids` signed up and `rows` created before:
\* each row with its bucket and the policy createBucket has stored on it
StartStored(rec, seq, stored, rows) ==
  /\ recording = rec
  /\ sequential = seq
  /\ last = NoResp
  /\ prev = NoResp
  /\ users = stored
  /\ buckets = rows
  /\ minio = [n \in {r.name : r \in rows} |->
               LET r == CHOOSE r \in rows : r.name = n
                   u == CHOOSE u \in users : u.id = r.userId
               IN  JSONstringify(OwnerPolicy(u.minioAccessKey, n))]
  /\ inflight = EmptyBag
  /\ resp = NoResp
  /\ faulted = FALSE
  /\ okCreates = [n \in Names |-> 0]
  /\ okDeletes = [n \in Names |-> 0]

StartFrom(rec, seq, ids, rows) ==
  StartStored(rec, seq, {UserRow(id, EmailOf(id), PasswordOf(id)) : id \in ids},
              rows)
StartWith(rec, seq, rows) == StartFrom(rec, seq, UserIds, rows)
Start(rec, seq) == StartWith(rec, seq, {})

\* the requests that have been sent and not yet answered
Pending == InFlight

CreateStep(fault) ==
  \/ \E userId \in TokenIds, name \in RequestNames : CreateStart(userId, name, fault)
  \/ \E q \in Pending : CreateUser(q, fault)
  \/ \E q \in Pending : CreateMake(q, fault)
  \/ \E q \in Pending : CreatePolicy(q, fault)
  \/ \E q \in Pending : CreatePolicyRollback(q, fault)
  \/ \E q \in Pending : CreateInsert(q, fault)
  \/ \E q \in Pending : CreateInsertRollback(q, fault)

DeleteStep(fault) ==
  \/ \E userId \in TokenIds, name \in RequestNames : DeleteStart(userId, name, fault)
  \/ \E q \in Pending : DeleteRemove(q, fault)
  \/ \E q \in Pending : DeleteRow(q, fault)

ReadStep(fault) ==
  \/ \E userId \in TokenIds, name \in RequestNames : GetBucketPolicy(userId, name, fault)
  \/ \E userId \in TokenIds : GetUserBuckets(userId, fault)

SignupStep(fault) ==
  \/ \E email \in SignupEmails, id \in UserIds :
       SignupStart(email, PasswordOf(id), fault)
  \/ \E q \in Pending : SignupCreate(q, fault)
  \/ \E q \in Pending : SignupPolicy(q, fault)

UpdatePolicyStep(fault) ==
  \/ \E userId \in TokenIds, policy \in PolicyInputs :
       UpdatePolicyStart(userId, policy, fault)
  \/ \E q \in Pending : UpdatePolicyList(q, fault)
  \/ \E q \in Pending : UpdatePolicySet(q, fault)

LoginStep(fault) ==
  \E email \in SignupEmails, password \in LoginPasswords :
    Login(email, password, fault)

ManageStep(fault) ==
  \/ \E userId \in TokenIds : GetUserInfo(userId, fault)
  \/ \E q \in Pending : GetUserInfoMinio(q, fault)
  \/ \E userId \in TokenIds : GetUserPolicy(userId, fault)
  \/ \E q \in Pending : GetUserPolicyMinio(q, fault)
  \/ \E userId \in TokenIds : ListAllUsers(userId, fault)
  \/ \E q \in Pending : ListAllUsersMinio(q, fault)

\* createBucket and deleteBucket requests, MaxInFlight of them at a time
NextSaga ==
  \E fault \in BOOLEAN :
    \/ CreateStep(fault)
    \/ DeleteStep(fault)

SpecSaga == Start(FALSE, FALSE) /\ [][NextSaga]_vars

\* createBucket and deleteBucket requests when no remote call fails for an
\* external reason
NextRace == CreateStep(FALSE) \/ DeleteStep(FALSE)

SpecRace == Start(FALSE, FALSE) /\ [][NextRace]_vars

\* createBucket and deleteBucket requests when no remote call fails for an
\* external reason, with the 200 responses of overlapping deletes counted
SpecOverlap == Start(TRUE, FALSE) /\ [][NextRace]_vars

\* createBucket requests only, with the injected failures recorded
NextCreate == \E fault \in BOOLEAN : CreateStep(fault)

SpecCreate == Start(TRUE, FALSE) /\ [][NextCreate]_vars

\* a client that sends its create and delete requests one after the other,
\* each after the answer to the one before; remote calls may fail
NextSeq ==
  \E fault \in BOOLEAN :
    \/ CreateStep(fault)
    \/ DeleteStep(fault)

SpecSeq == Start(TRUE, TRUE) /\ [][NextSeq]_vars

\* the return of the remote call a handler awaits, with either outcome
Continue ==
  \E fault \in BOOLEAN : \E q \in Pending :
    \/ CreateUser(q, fault)
    \/ CreateMake(q, fault)
    \/ CreatePolicy(q, fault)
    \/ CreatePolicyRollback(q, fault)
    \/ CreateInsert(q, fault)
    \/ CreateInsertRollback(q, fault)
    \/ DeleteRemove(q, fault)
    \/ DeleteRow(q, fault)

\* create, delete and read requests of a client that sends one at a time
NextAnswer ==
  \E fault \in BOOLEAN :
    \/ CreateStep(fault)
    \/ DeleteStep(fault)
    \/ ReadStep(fault)

\* every remote call returns: the handler that awaits one is resumed
SpecAnswer == Start(FALSE, TRUE) /\ [][NextAnswer]_vars /\ WF_vars(Continue)

\* a bucket created before by another user, under a name no request uses
OtherName == <<"b","o","x","-","e">>
SpecList ==
  StartWith(FALSE, TRUE, {BucketRow(OtherName, NumUsers)}) /\ [][NextAnswer]_vars

\* signup requests to a service without users, MaxInFlight at a time, with
\* the failed remote calls recorded
NextSignup == \E fault \in BOOLEAN : SignupStep(fault)

SpecSignup == StartFrom(TRUE, FALSE, {}, {}) /\ [][NextSignup]_vars

\* signups and logins, with the injected failures recorded
NextLogin ==
  \E fault \in BOOLEAN :
    \/ SignupStep(fault)
    \/ LoginStep(fault)

SpecLogin == StartFrom(TRUE, FALSE, {1}, {}) /\ [][NextLogin]_vars

\* the names a client may send to POST /api/buckets: names at the limits of
\* the rule, names with a character or a hyphen the rule does not allow, and
\* a name in blanks
Repeat(c, n) == [i \in 1..n |-> c]
NameInputs ==
  {GoodName, <<" ">> \o GoodName \o <<" ">>,
   Repeat("a", MaxNameLen), Repeat("a", MaxNameLen + 1),
   <<"a","b">>, <<" ","a","b">>, <<"-","a","b">>, <<"a","b","-">>,
   <<"A","b","c">>, <<"a","_","c">>, <<"a"," ","c">>, <<>>}

\* createBucket requests with these names, one at a time
NextValidate ==
  \E fault \in BOOLEAN :
    \/ \E userId \in UserIds, name \in NameInputs : CreateStart(userId, name, fault)
    \/ \E q \in Pending : CreateUser(q, fault)
    \/ \E q \in Pending : CreateMake(q, fault)
    \/ \E q \in Pending : CreatePolicy(q, fault)
    \/ \E q \in Pending : CreatePolicyRollback(q, fault)
    \/ \E q \in Pending : CreateInsert(q, fault)
    \/ \E q \in Pending : CreateInsertRollback(q, fault)

SpecValidate == Start(FALSE, TRUE) /\ [][NextValidate]_vars

\* the emails of the users signup has stored: one whose username needs no
\* correction, one whose username is shorter than 3 characters, one whose
\* username is longer than 20
StoredEmails ==
  {<<"a","l","@","x">>, <<"a","@","x">>,
   Repeat("a", MaxUsernameLen) \o <<"@","x">>}
\* the user-management requests of a client that sends one request at a time,
\* to a service whose users have signed up with emails of any length and
\* whose first user has a bucket of the name `${username}-default`
NextManage ==
  \E fault \in BOOLEAN :
    \/ ManageStep(fault)
    \/ UpdatePolicyStep(fault)

SpecManage ==
  /\ \E email \in [UserIds -> StoredEmails] :
       /\ \A i, j \in UserIds : email[i] = email[j] => i = j
       /\ StartStored(TRUE, TRUE,
                      {UserRow(id, email[id], PasswordOf(id)) : id \in UserIds},
                      {BucketRow(DefaultBucket(getUsernameFromEmail(email[1])), 1)})
  /\ [][NextManage]_vars

\* createBucket requests and the reads of the bucket routes, MaxInFlight at a
\* time, with the failed remote calls recorded
NextObserve ==
  \E fault \in BOOLEAN :
    \/ CreateStep(fault)
    \/ ReadStep(fault)

SpecObserve == Start(TRUE, FALSE) /\ [][NextObserve]_vars

\* every route of the server, for a client that sends one request at a
\* time; the first user has signed up and has a bucket `${username}-default`
NextAll ==
  \E fault \in BOOLEAN :
    \/ CreateStep(fault)
    \/ DeleteStep(fault)
    \/ ReadStep(fault)
    \/ UpdatePolicyStep(fault)
    \/ ManageStep(fault)
    \/ SignupStep(fault)
    \/ LoginStep(fault)

FirstDefault == DefaultBucket(getUsernameFromEmail(EmailOf(1)))
SpecAll ==
  StartFrom(FALSE, TRUE, {1}, {BucketRow(FirstDefault, 1)}) /\ [][NextAll]_vars

\* every operation of the bucket and user-management routes
Next ==
  \E fault \in BOOLEAN :
    \/ CreateStep(fault)
    \/ DeleteStep(fault)
    \/ UpdatePolicyStep(fault)
    \/ ReadStep(fault)

Spec == Start(FALSE, FALSE) /\ [][Next]_vars

(***************************************************************************)
(* What the properties speak about.                                        *)
(***************************************************************************)
Rows(name) == FindBucket(name)
AccessKeyOf(userId) == (CHOOSE u \in users : u.id = userId).minioAccessKey
\* getPolicy(name): the document stored on the bucket
StoredPolicy(name) == JSONparse(minio[name])
\* the document names `accessKey` as its only principal and `name` as its
\* only bucket, in one Allow statement with the four object actions
IsOwnerPolicy(doc, accessKey, name) ==
  /\ Len(doc.Statement) = 1
  /\ doc.Statement[1].Effect = "Allow"
  /\ doc.Statement[1].Principal.AWS = <<accessKey>>
  /\ Range(doc.Statement[1].Action) =
       {"s3:GetObject", "s3:PutObject", "s3:DeleteObject", "s3:ListBucket"}
  /\ Range(doc.Statement[1].Resource) = {Arn(name), ArnObjects(name)}
HasOwnerPolicy(name, userId) ==
  /\ CanGetBucketPolicy(name)
  /\ IsOwnerPolicy(StoredPolicy(name), AccessKeyOf(userId), name)
\* bucket, row and single-owner policy are all there, or none is
Provisioned(name) ==
  /\ bucketExists(name)
  /\ Cardinality(Rows(name)) = 1
  /\ \A b \in Rows(name) : HasOwnerPolicy(name, b.userId)
Absent(name) == ~bucketExists(name) /\ Rows(name) = {}
Quiescent == inflight = EmptyBag
RollbackKinds == {"PolicySetFailed", "RegistrationFailed"}

(***************************************************************************)
(* C1.  After every completed create or delete, with nothing else in       *)
(* flight, every name is fully provisioned (bucket, row, single-owner      *)
(* policy) or fully absent.                                                *)
(***************************************************************************)
C1_AllOrNothing ==
  (resp.op \in {"create", "delete"} /\ Quiescent)
    => \A n \in Names : Provisioned(n) \/ Absent(n)

(***************************************************************************)
(* C2.  At most one create of a name answers 201 while no row of the name  *)
(* is deleted in between, and the registry never holds two rows of a name. *)
(***************************************************************************)
C2_OneWinner ==
  \A n \in Names : okCreates[n] <= 1 /\ Cardinality(Rows(n)) <= 1
\* a create has won and another create of the name has been turned down
C2_Witness ==
  /\ resp.op = "create"
  /\ resp.kind \in {"NameConflict", "StorageCreateFailed", "RegistrationFailed"}
  /\ resp.name \in Names
  /\ okCreates[resp.name] = 1

(***************************************************************************)
(* C3.  Creates only, no injected failure: a create of an existing user    *)
(* with a valid name that does not win answers NameConflict or             *)
(* RegistrationFailed (claim) -- NameConflict or StorageCreateFailed       *)
(* (amended).                                                              *)
(***************************************************************************)
LoserResponse ==
  /\ ~faulted
  /\ resp.op = "create"
  /\ resp.userId \in UserIds
  /\ resp.kind \notin {"Created", "ValidationError"}
C3_LosersAsClaimed ==
  LoserResponse => resp.kind \in {"NameConflict", "RegistrationFailed"}
C3_Losers ==
  LoserResponse => resp.kind \in {"NameConflict", "StorageCreateFailed"}
\* the loser was stopped by the storage layer, after passing the pre-check
C3_Witness ==
  LoserResponse /\ resp.kind = "StorageCreateFailed" /\ Rows(resp.name) = {}

C5_RollbackSparesWinner ==
  [][ (resp'.kind \in RollbackKinds /\ resp'.rollback = "ok")
        => ~ \E b \in Rows(resp'.name) :
               /\ b.userId # resp'.userId
               /\ HasOwnerPolicy(resp'.name, b.userId) ]_vars

(***************************************************************************)
(* C6.  When create(user, name) answers 201, the policy stored on the      *)
(* bucket is the single-owner policy of that user.                         *)
(***************************************************************************)
C6_PolicyAfterCreate ==
  resp.kind = "Created" => HasOwnerPolicy(resp.name, resp.userId)

(***************************************************************************)
(* C7.  Every storage bucket that has a registry row carries the           *)
(* single-owner policy of the row's owner.                                 *)
(***************************************************************************)
C7_OwnerOnlyPolicy ==
  \A n \in Names : \A b \in Rows(n) :
    bucketExists(n) => HasOwnerPolicy(n, b.userId)

(***************************************************************************)
(* C8.  A delete whose registry lookup finds no row of the caller (a row   *)
(* of another user, or none) answers 404 NotFoundOrNotOwned, the same      *)
(* response in both cases, starts no storage call and changes nothing.     *)
(***************************************************************************)
\* the registry has a row of the name that belongs to the caller
HasRowOf(name, userId) == \E b \in Rows(name) : b.userId = userId
\* the step is the answer of deleteBucket's lookup
DeleteLookupAnswer ==
  /\ resp'.op = "delete"
  /\ resp'.kind # "DeleteFailed"
  /\ inflight' = inflight
\* the step starts the storage call of a delete q
StartsDelete(q) ==
  /\ q.pc = "d_remove"
  /\ CopiesIn(q, inflight') > CopiesIn(q, inflight)
C8_ForeignDelete ==
  [][ /\ (DeleteLookupAnswer /\ ~HasRowOf(resp'.name, resp'.userId))
           => /\ resp' = Response("delete", resp'.userId, resp'.name, 404,
                                  "NotFoundOrNotOwned", <<>>, "none")
              /\ UNCHANGED <<users, buckets, minio>>
      /\ \A q \in BagToSet(inflight') :
           StartsDelete(q) => HasRowOf(q.name, q.userId) ]_vars
\* a delete of another user's provisioned bucket has just been turned down
C8_Witness ==
  /\ resp.op = "delete"
  /\ resp.kind = "NotFoundOrNotOwned"
  /\ bucketExists(resp.name)
  /\ \E b \in Rows(resp.name) : b.userId # resp.userId /\ resp.userId \in UserIds

(***************************************************************************)
(* C9.  A get-policy request of a user never returns the policy document   *)
(* of a bucket whose row belongs to another user.                          *)
(***************************************************************************)
C9_NoForeignPolicy ==
  ~ /\ resp.op = "policy"
    /\ resp.kind = "Policy"
    /\ \E b \in Rows(resp.name) : b.userId # resp.userId

(***************************************************************************)
(* What a sequential client has seen: `last` answers its latest request,   *)
(* `prev` the one before; Clean: no remote call of the latest request      *)
(* failed for an external reason.                                          *)
(***************************************************************************)
Answered == Quiescent /\ last # NoResp
Clean == Answered /\ ~faulted
\* the latest request repeats the one before: same operation, user, name
Retry == last.op = prev.op /\ last.userId = prev.userId /\ last.name = prev.name

(***************************************************************************)
(* C11.  One request at a time: a create of a name by an existing user     *)
(* that follows a successful delete of that name, and in which no remote   *)
(* call fails, answers 201.                                                *)
(***************************************************************************)
C11_ReusableAfterDelete ==
  (/\ Clean
   /\ prev.kind = "Deleted"
   /\ last.op = "create"
   /\ last.name = prev.name
   /\ last.userId \in UserIds)
    => last.kind = "Created" /\ last.status = 201
\* the name was deleted and has been created again, by another user
C11_Witness ==
  /\ Clean
  /\ prev.kind = "Deleted"
  /\ last.kind = "Created"
  /\ last.name = prev.name
  /\ last.userId # prev.userId
  /\ Provisioned(last.name)

(***************************************************************************)
(* C12.  One request at a time: when setBucketPolicy of a create fails,    *)
(* the handler goes on to the rollback only, answers 500 PolicySetFailed   *)
(* without a registry insert, and the registry has no row of the name.     *)
(***************************************************************************)
\* the step in which setBucketPolicy of q fails: q leaves, no policy is stored
PolicySetFails(q) ==
  q.pc = "c_policy" /\ q \notin BagToSet(inflight') /\ minio' = minio
\* the step in which q leaves its rollback
LeavesPolicyRollback(q) ==
  q.pc = "c_policy_rb" /\ q \notin BagToSet(inflight')
C12_PolicySetFailed ==
  [][ \A q \in InFlight :
        /\ PolicySetFails(q) =>
              /\ inflight' = One([q EXCEPT !.pc = "c_policy_rb"])
              /\ resp' = NoResp
              /\ UNCHANGED buckets
        /\ LeavesPolicyRollback(q) =>
              /\ inflight' = EmptyBag
              /\ resp'.op = "create"
              /\ resp'.userId = q.userId
              /\ resp'.name = q.name
              /\ resp'.kind = "PolicySetFailed"
              /\ resp'.status = 500
              /\ UNCHANGED buckets
              /\ {b \in buckets' : b.name = q.name} = {} ]_vars
\* the 500 of a failed setBucketPolicy, the bucket rolled back, no row
C12_Witness ==
  /\ Answered
  /\ last.kind = "PolicySetFailed"
  /\ last.rollback = "ok"
  /\ Absent(last.name)

(***************************************************************************)
(* C13.  One request at a time: a create that repeats a create answered    *)
(* StorageCreateFailed, PolicySetFailed or RegistrationFailed, and in      *)
(* which no remote call fails, answers 201 (claim) -- answers 201 unless   *)
(* the failed call left the storage bucket behind, and then it answers     *)
(* StorageCreateFailed (amended).                                          *)
(***************************************************************************)
RetriedCreate ==
  /\ Clean
  /\ Retry
  /\ last.op = "create"
  /\ prev.kind \in {"StorageCreateFailed", "PolicySetFailed", "RegistrationFailed"}
C14_RetryDelete ==
  (/\ Clean
   /\ Retry
   /\ last.op = "delete"
   /\ prev.kind = "RegistrationDeleteFailed")
    => last.kind = "Deleted" /\ Rows(last.name) = {}

(***************************************************************************)
(* C15.  Every create, delete or get-policy request that fails after its   *)
(* input was accepted (any error status but the 400 of a rejected input)   *)
(* answers one of the nine taxonomy errors.                                *)
(***************************************************************************)
Taxonomy ==
  {"NameConflict", "UserNotFound", "StorageCreateFailed", "PolicySetFailed",
   "RegistrationFailed", "NotFoundOrNotOwned", "StorageDeleteFailed",
   "RegistrationDeleteFailed", "PolicyNotFound"}
C15_TaxonomyErrors ==
  (/\ resp.op \in {"create", "delete", "policy"}
   /\ resp.status > 400)
    => resp.kind \in Taxonomy

(***************************************************************************)
(* C16.  When every remote call returns, the request a client has sent is  *)
(* answered: its handler ends, and it ends with exactly one response,      *)
(* a success or an error with a kind and a status; no step answers         *)
(* without a request to answer.                                            *)
(***************************************************************************)
Structured(r) ==
  /\ r.op \in {"create", "delete", "policy", "list"}
  /\ r.kind # "none"
  /\ r.status \in {200, 201, 400, 404, 409, 500}
  /\ (r.status \in {200, 201}) = (r.kind \in {"Created", "Deleted", "Policy", "Buckets"})
\* q's handler ends in this step
Ends(q) == CopiesIn(q, inflight') < CopiesIn(q, inflight) /\
           BagCardinality(inflight') < BagCardinality(inflight)
OneResponse ==
  /\ \A q \in InFlight : Ends(q) =>
        /\ BagCardinality(inflight') = BagCardinality(inflight) - 1
        /\ Structured(resp')
        /\ resp'.userId = q.userId /\ resp'.name = q.name
  /\ resp' # NoResp =>
        /\ Structured(resp')
        /\ \/ \E q \in InFlight : Ends(q)
           \/ inflight' = inflight /\ inflight = EmptyBag
  /\ (inflight' # inflight /\ ~ \E q \in InFlight : Ends(q)) => resp' = NoResp
C16_EveryRequestAnswered ==
  /\ [][OneResponse]_vars
  /\ (inflight # EmptyBag) ~> (inflight = EmptyBag /\ resp # NoResp)
\* a create has been answered after its last step, the rollback of a failed
\* insert
C16_Witness ==
  /\ Answered
  /\ last.kind = "RegistrationFailed"
  /\ resp = last

(***************************************************************************)
(* C17.  While a registry row of a name exists its owner does not change:  *)
(* no step replaces the row or adds a second row of the name, and no       *)
(* create of the name answers 201.                                         *)
(***************************************************************************)
C17_OwnerFixed ==
  [][ /\ \A b \in buckets :
           (\E c \in buckets' : c.name = b.name)
             => {c \in buckets' : c.name = b.name} = {b}
      /\ resp'.kind = "Created"
           => {b \in buckets : b.name = resp'.name} = {} ]_vars
\* a create of another user's name has passed the pre-check and has been
\* refused at the insert
C17_Witness ==
  /\ resp.op = "create"
  /\ resp.kind = "RegistrationFailed"
  /\ \E b \in Rows(resp.name) : b.userId # resp.userId
  /\ okCreates[resp.name] = 1

(***************************************************************************)
(* C18.  getUserBuckets answers with exactly the registry rows owned by    *)
(* the caller (each with its user row), and changes neither the tables     *)
(* nor the store.                                                          *)
(***************************************************************************)
C18_ListOwnRows ==
  [][ resp'.op = "list" =>
        /\ UNCHANGED <<users, buckets, minio>>
        /\ resp'.kind = "Buckets" =>
              /\ resp'.status = 200
              /\ {r.name : r \in resp'.body} =
                   {b.name : b \in {c \in buckets : c.userId = resp'.userId}}
              /\ \A r \in resp'.body :
                   r.userId = resp'.userId /\ r.user.id = resp'.userId ]_vars
\* a user with a bucket has listed while another user has a bucket too
C18_Witness ==
  /\ resp.op = "list"
  /\ resp.kind = "Buckets"
  /\ resp.body # {}
  /\ \E b \in buckets : b.userId # resp.userId

(***************************************************************************)
(* C19.  No two User rows have the same lower-cased email, under any       *)
(* interleaving of signups; a signup for an email that has a row, in any   *)
(* letter case, does not get past the lookup, and when the lookup does not *)
(* fail it answers 409 'User already exists' and the table is unchanged.   *)
(***************************************************************************)
Registered(email) == \E u \in users : ToLowerCase(u.email) = ToLowerCase(email)
UniqueEmails ==
  \A u \in users : \A v \in users :
    ToLowerCase(u.email) = ToLowerCase(v.email) => u = v
\* the step starts the handler of signup q: q has passed the lookup
PassesLookup(q) ==
  q.pc = "s_create" /\ CopiesIn(q, inflight') > CopiesIn(q, inflight)
C19_UniqueEmail ==
  /\ [](UniqueEmails)
  /\ [][ /\ \A q \in BagToSet(inflight') : PassesLookup(q) => ~Registered(q.name)
         /\ (/\ resp'.op = "signup"
             /\ inflight' = inflight
             /\ resp'.name # <<>>
             /\ Registered(resp'.name)
             /\ ~faulted')
              => /\ resp'.kind = "UserExists"
                 /\ resp'.status = 409
                 /\ UNCHANGED <<users, buckets, minio>> ]_vars
\* a signup for a registered email in another letter case has been refused
C19_Witness ==
  /\ resp.op = "signup"
  /\ resp.kind = "UserExists"
  /\ ~faulted
  /\ \E u \in users : u.email # resp.name /\ u.email = ToLowerCase(resp.name)

(***************************************************************************)
(* C20.  No two User rows have the same storage access key.                *)
(***************************************************************************)
C20_UniqueAccessKey ==
  \A u \in users : \A v \in users :
    u.minioAccessKey = v.minioAccessKey => u = v
\* a signup whose email gives the access key of a registered user with
\* another email has been refused at the insert
C20_Witness ==
  /\ resp.op = "signup"
  /\ resp.kind = "InternalError"
  /\ ~faulted
  /\ ~Registered(resp.name)
  /\ \E u \in users :
       u.minioAccessKey = generateMinioCredentials(resp.name, <<>>).accessKey

(***************************************************************************)
(* Steps of a handler, as the properties below speak of them.  A request   *)
(* q in flight awaits the remote call q.pc; the step that takes q out of   *)
(* `inflight` is the return of that call.                                  *)
(***************************************************************************)
\* the handler of q returns from its remote call in this step
Returns(q) == CopiesIn(q, inflight') < CopiesIn(q, inflight)
\* ... and ends
Stops(q) == Returns(q) /\ inflight' = inflight (-) One(q)
\* ... and goes on to the remote call pc
Proceeds(q, pc) ==
  /\ Returns(q)
  /\ \E s \in BagToSet(inflight') :
       /\ s.pc = pc /\ s.userId = q.userId /\ s.name = q.name
       /\ inflight' = (inflight (-) One(q)) (+) One(s)
\* a handler has passed its lookup in this step and awaits its next call
Starts(q) == inflight' = inflight (+) One(q)
\* the registry has a record of the name
Recorded(name) == \E b \in buckets : b.name = name

(***************************************************************************)
(* C21.  A create that finds a registry record of the name answers 409     *)
(* NameConflict: the answer comes from the lookup step itself, which       *)
(* starts no remote call and changes neither table nor store, and no       *)
(* create goes past its lookup while the registry has a record of the      *)
(* name.                                                                   *)
(***************************************************************************)
C21_NameConflict ==
  [][ /\ resp'.kind = "NameConflict" =>
           /\ resp' = Response("create", resp'.userId, resp'.name, 409,
                               "NameConflict", <<>>, "none")
           /\ Recorded(resp'.name)
           /\ UNCHANGED <<users, buckets, minio, inflight>>
      /\ (resp'.op = "create" /\ inflight' = inflight /\ Recorded(resp'.name))
           => resp'.kind \in {"NameConflict", "CreateFailed", "ValidationError"}
      /\ \A q \in BagToSet(inflight') :
           (Starts(q) /\ q.pc = "c_user") => ~Recorded(q.name) ]_vars
\* a create of a provisioned name has been turned down while another
\* request is being handled
C21_Witness ==
  /\ resp.op = "create"
  /\ resp.kind = "NameConflict"
  /\ Provisioned(resp.name)
  /\ inflight # EmptyBag

(***************************************************************************)
(* C22.  When makeBucket of a create fails, and it fails whenever the      *)
(* store holds a bucket of the name, the handler ends with 500             *)
(* StorageCreateFailed in that step: no removeBucket, no setBucketPolicy   *)
(* and no insert follow, and the tables and the store, the bucket that     *)
(* was there and its policy included, are as before.                       *)
(***************************************************************************)
C22_StorageCreateFailed ==
  [][ /\ resp'.kind = "StorageCreateFailed" =>
           /\ resp' = Response("create", resp'.userId, resp'.name, 500,
                               "StorageCreateFailed", <<>>, "none")
           /\ \E q \in InFlight :
                /\ q.pc = "c_make" /\ Stops(q)
                /\ q.userId = resp'.userId /\ q.name = resp'.name
           /\ UNCHANGED <<users, buckets, minio>>
      /\ \A q \in InFlight :
           (q.pc = "c_make" /\ Returns(q) /\ bucketExists(q.name)) =>
              /\ Stops(q)
              /\ resp'.kind = "StorageCreateFailed"
              /\ UNCHANGED <<users, buckets, minio>> ]_vars
\* makeBucket has been refused, with no other failure, for a name whose
\* bucket and policy another create has stored
C22_Witness ==
  /\ resp.kind = "StorageCreateFailed"
  /\ ~faulted
  /\ Provisioned(resp.name)
  /\ \E b \in Rows(resp.name) : b.userId # resp.userId

(***************************************************************************)
(* C23.  When prisma.bucket.create of a create fails, and it fails         *)
(* whenever the registry has a row of the name, the handler goes on to     *)
(* one removeBucket of the name and nothing else, and after that call,     *)
(* whatever its outcome, ends with 500 RegistrationFailed; no other step   *)
(* sends that response.                                                    *)
(***************************************************************************)
\* the store without the bucket `name`
Without(name) == [n \in DOMAIN minio \ {name} |-> minio[n]]
C23_RegistrationFailed ==
  [][ /\ \A q \in InFlight :
           /\ (q.pc = "c_insert" /\ Returns(q) /\ Recorded(q.name))
                 => buckets' = buckets
           /\ (q.pc = "c_insert" /\ Returns(q) /\ buckets' = buckets) =>
                 /\ Proceeds(q, "c_insert_rb")
                 /\ resp' = NoResp
                 /\ UNCHANGED <<users, minio>>
           /\ (q.pc = "c_insert_rb" /\ Returns(q)) =>
                 /\ Stops(q)
                 /\ resp' = Response("create", q.userId, q.name, 500,
                                     "RegistrationFailed", <<>>, resp'.rollback)
                 /\ resp'.rollback \in {"ok", "failed"}
                 /\ resp'.rollback = "ok" =>
                       bucketExists(q.name) /\ minio' = Without(q.name)
                 /\ resp'.rollback = "failed" => minio' = minio
                 /\ UNCHANGED <<users, buckets>>
      /\ resp'.kind = "RegistrationFailed" =>
           \E q \in InFlight : q.pc = "c_insert_rb" /\ Returns(q) ]_vars
\* an insert has failed on the row another user's create has inserted, and
\* the bucket this create had made is removed
C23_Witness ==
  /\ resp.kind = "RegistrationFailed"
  /\ resp.rollback = "ok"
  /\ ~bucketExists(resp.name)
  /\ \E b \in Rows(resp.name) : b.userId # resp.userId

(***************************************************************************)
(* C24.  When removeBucket of a delete fails (the store is left as it      *)
(* was), the handler ends in that step with 500 StorageDeleteFailed:       *)
(* prisma.bucket.delete is not called and the Bucket table is unchanged;   *)
(* no other step sends that response.                                      *)
(***************************************************************************)
C24_StorageDeleteFailed ==
  [][ /\ \A q \in InFlight :
           (q.pc = "d_remove" /\ Returns(q) /\ minio' = minio) =>
              /\ Stops(q)
              /\ resp' = Response("delete", q.userId, q.name, 500,
                                  "StorageDeleteFailed", <<>>, "none")
              /\ UNCHANGED <<users, buckets>>
      /\ resp'.kind = "StorageDeleteFailed" =>
           /\ \E q \in InFlight : q.pc = "d_remove" /\ Stops(q)
           /\ UNCHANGED <<users, buckets, minio>> ]_vars
\* removeBucket of the owner's delete has failed and the bucket, its policy
\* and its row are all still there
C24_Witness ==
  /\ Answered
  /\ last.kind = "StorageDeleteFailed"
  /\ Provisioned(last.name)
  /\ \E b \in Rows(last.name) : b.userId = last.userId

(***************************************************************************)
(* C25.  When prisma.bucket.delete of a delete fails after removeBucket    *)
(* has removed the bucket, the handler ends with 500                       *)
(* RegistrationDeleteFailed, makes no bucket again, and the registry still *)
(* has the row of the name, with no bucket of the name in the store; the   *)
(* row goes only in a step of a delete that answers 200.                   *)
(***************************************************************************)
C25_DanglingRecord ==
  [][ /\ \A q \in InFlight :
           (q.pc = "d_delete" /\ Returns(q) /\ buckets' = buckets) =>
              /\ Stops(q)
              /\ resp' = Response("delete", q.userId, q.name, 500,
                                  "RegistrationDeleteFailed", <<>>, "none")
              /\ UNCHANGED <<users, minio>>
      /\ resp'.kind = "RegistrationDeleteFailed" =>
           /\ \E b \in buckets' : b.name = resp'.name
           /\ resp'.name \notin DOMAIN minio'
      /\ \A n \in Names :
           (Recorded(n) /\ ~ \E b \in buckets' : b.name = n) =>
              resp'.kind = "Deleted" /\ resp'.name = n ]_vars

(***************************************************************************)
(* C26.  The return of a rollback's removeBucket ends the create with the  *)
(* error of the call that failed before it, 500 PolicySetFailed after a    *)
(* failed setBucketPolicy and 500 RegistrationFailed after a failed        *)
(* insert, the same response whether the bucket was removed or the         *)
(* removal failed; the handler calls nothing after it.                     *)
(***************************************************************************)
\* the error answered after the rollback that the handler at pc awaits
PrimaryError(pc) ==
  IF pc = "c_policy_rb" THEN "PolicySetFailed" ELSE "RegistrationFailed"
C26_RollbackSilent ==
  [][ \A q \in InFlight :
        (q.pc \in {"c_policy_rb", "c_insert_rb"} /\ Returns(q)) =>
           /\ Stops(q)
           /\ resp'.op = "create"
           /\ resp'.userId = q.userId /\ resp'.name = q.name
           /\ resp'.status = 500
           /\ resp'.kind = PrimaryError(q.pc)
           /\ resp'.body = <<>>
           /\ minio' \in {minio, Without(q.name)}
           /\ UNCHANGED <<users, buckets>> ]_vars
\* setBucketPolicy failed, the rollback failed too, and the answer is the
\* 500 of the policy with the bucket left in the store
C26_Witness ==
  /\ resp.kind = "PolicySetFailed"
  /\ resp.rollback = "failed"
  /\ bucketExists(resp.name)
  /\ Rows(resp.name) = {}

(***************************************************************************)
(* C27.  No remote call is made twice by one invocation.  The calls of a   *)
(* create come in the order findUnique(user), makeBucket, setBucketPolicy, *)
(* bucket.create, removeBucket, those of a delete in the order             *)
(* removeBucket, bucket.delete; a handler that returns from a call ends    *)
(* or goes on to a call later in that order, never to the same call or an  *)
(* earlier one.                                                            *)
(***************************************************************************)
\* the remote call a handler at pc awaits
CallOf(pc) ==
  CASE pc = "c_user" -> "user.findUnique"
    [] pc = "c_make" -> "makeBucket"
    [] pc = "c_policy" -> "setBucketPolicy"
    [] pc = "c_insert" -> "bucket.create"
    [] pc \in {"c_policy_rb", "c_insert_rb", "d_remove"} -> "removeBucket"
    [] pc = "d_delete" -> "bucket.delete"
\* the operation a handler at pc belongs to
OpOf(pc) == IF pc \in {"d_remove", "d_delete"} THEN "delete" ELSE "create"
\* the place of a call in the order of its operation
Place(op, call) ==
  IF op = "create"
  THEN CASE call = "user.findUnique" -> 1
         [] call = "makeBucket" -> 2
         [] call = "setBucketPolicy" -> 3
         [] call = "bucket.create" -> 4
         [] call = "removeBucket" -> 5
  ELSE CASE call = "removeBucket" -> 1
         [] call = "bucket.delete" -> 2
C27_NoRetry ==
  [][ \A q \in InFlight :
        Returns(q) =>
          \/ Stops(q)
          \/ \E s \in BagToSet(inflight') :
               /\ Proceeds(q, s.pc)
               /\ OpOf(s.pc) = OpOf(q.pc)
               /\ Place(OpOf(s.pc), CallOf(s.pc)) > Place(OpOf(q.pc), CallOf(q.pc)) ]_vars
\* a create awaits its last call, the rollback of a failed insert, while a
\* delete awaits its last call
C27_Witness ==
  /\ \E q \in InFlight : q.pc = "c_insert_rb"
  /\ \E q \in InFlight : q.pc = "d_delete"

(***************************************************************************)
(* C28.  The calls of one create are ordered.  A handler comes to          *)
(* setBucketPolicy only from its makeBucket, in the step that made the     *)
(* bucket; it comes to the insert only from its setBucketPolicy, in the    *)
(* step that stored the policy of the requesting user on the bucket; and   *)
(* the 201 is sent only by the step of its insert that added the row of    *)
(* the name with the requesting user as the owner.                         *)
(***************************************************************************)
C28_StepOrder ==
  [][ /\ \A s \in BagToSet(inflight') :
           Starts(s) => s.pc \in {"c_user", "d_remove"}
      /\ \A q \in InFlight :
           /\ Proceeds(q, "c_policy") =>
                 /\ q.pc = "c_make"
                 /\ q.name \notin DOMAIN minio
                 /\ q.name \in DOMAIN minio'
           /\ Proceeds(q, "c_insert") =>
                 /\ q.pc = "c_policy"
                 /\ q.name \in DOMAIN minio /\ q.name \in DOMAIN minio'
                 /\ \E u \in users :
                      /\ u.id = q.userId
                      /\ minio'[q.name] # NoPolicy
                      /\ IsOwnerPolicy(JSONparse(minio'[q.name]),
                                       u.minioAccessKey, q.name)
      /\ resp'.kind = "Created" =>
           /\ resp'.status = 201
           /\ \E q \in InFlight :
                /\ q.pc = "c_insert" /\ Stops(q)
                /\ q.userId = resp'.userId /\ q.name = resp'.name
                /\ ~Recorded(q.name)
                /\ buckets' = buckets \cup {[name |-> q.name, userId |-> q.userId]} ]_vars
\* the second user's create has answered 201 and bucket, policy and row
\* are there
C28_Witness ==
  /\ resp.kind = "Created"
  /\ resp.userId = NumUsers
  /\ Provisioned(resp.name)
  /\ \E b \in Rows(resp.name) : b.userId = resp.userId

(***************************************************************************)
(* C30.  A create whose prisma.user.findUnique finds no row of the         *)
(* requesting user ends in that step, before makeBucket, with 404          *)
(* UserNotFound (or the generic 500 when the lookup itself fails), and     *)
(* the tables and the store are unchanged; no other step of a create       *)
(* sends UserNotFound.                                                     *)
(***************************************************************************)
C30_UserNotFound ==
  [][ /\ \A q \in InFlight :
           (q.pc = "c_user" /\ Returns(q) /\ ~ \E u \in users : u.id = q.userId) =>
              /\ Stops(q)
              /\ resp'.kind \in {"UserNotFound", "CreateFailed"}
              /\ resp'.userId = q.userId /\ resp'.name = q.name
              /\ UNCHANGED <<users, buckets, minio>>
      /\ (resp'.op = "create" /\ resp'.kind = "UserNotFound") =>
           /\ resp'.status = 404
           /\ ~ \E u \in users : u.id = resp'.userId
           /\ \E q \in InFlight : q.pc = "c_user" /\ Stops(q)
           /\ UNCHANGED <<users, buckets, minio>> ]_vars
\* a create with the token of a user who has no row has been answered
\* while another create is being handled
C30_Witness ==
  /\ resp.op = "create"
  /\ resp.kind = "UserNotFound"
  /\ resp.userId = StaleId
  /\ \E q \in InFlight : q.pc = "c_policy" /\ q.name = resp.name

(***************************************************************************)
(* C29.  Over all the routes of the server: a row comes into the Bucket    *)
(* table only in the insert step of a create, which answers 201, and goes  *)
(* only in the row-delete step of a delete, which answers 200; a bucket    *)
(* comes into the store only in the makeBucket step of a create and goes   *)
(* only in the removeBucket step of a delete or of a create's rollback.    *)
(* No step of getUserBuckets, getBucketPolicy, signup, login, getUserInfo, *)
(* getUserPolicy, updateUserPolicy or listAllUsers adds or removes one.    *)
(***************************************************************************)
\* the handler of a request for `name` returns in this step from one of the
\* calls `pcs`
ReturnsFrom(pcs, name) ==
  \E q \in InFlight : q.pc \in pcs /\ Returns(q) /\ q.name = name
C29_OnlyCreateAndDelete ==
  [][ /\ \A b \in buckets' \ buckets :
           /\ \E q \in InFlight :
                q.pc = "c_insert" /\ Stops(q) /\ q.name = b.name /\ q.userId = b.userId
           /\ resp'.op = "create" /\ resp'.kind = "Created" /\ resp'.name = b.name
      /\ \A b \in buckets \ buckets' :
           /\ \E q \in InFlight : q.pc = "d_delete" /\ Stops(q) /\ q.name = b.name
           /\ resp'.op = "delete" /\ resp'.kind = "Deleted" /\ resp'.name = b.name
      /\ \A n \in DOMAIN minio' \ DOMAIN minio : ReturnsFrom({"c_make"}, n)
      /\ \A n \in DOMAIN minio \ DOMAIN minio' :
           ReturnsFrom({"d_remove", "c_policy_rb", "c_insert_rb"}, n) ]_vars
\* a second user has signed up, the first has created a bucket next to the
\* default one, and updateUserPolicy has just rewritten the policies of both
C29_Witness ==
  /\ resp.op = "updatePolicy"
  /\ resp.kind = "PolicyUpdated"
  /\ Cardinality(users) = NumUsers
  /\ \A n \in Names \cup {FirstDefault} :
       /\ Rows(n) # {}
       /\ bucketExists(n)
       /\ ~HasOwnerPolicy(n, 1)

(***************************************************************************)
(* C31.  getBucketPolicy answers in one step that changes neither table    *)
(* nor store nor the requests in flight: 200 with the parsed text of the   *)
(* policy the store holds for the bucket at that moment, and 404           *)
(* PolicyNotFound when the store has no bucket of the name or no policy    *)
(* on it (or the call fails).                                              *)
(***************************************************************************)
C31_PolicyRead ==
  [][ resp'.op = "policy" =>
        /\ UNCHANGED <<users, buckets, minio, inflight>>
        /\ resp'.kind \in {"Policy", "PolicyNotFound", "NameRequired"}
        /\ resp'.kind = "Policy" =>
              /\ resp'.status = 200
              /\ resp'.name \in DOMAIN minio
              /\ minio[resp'.name] # NoPolicy
              /\ resp'.body = minio[resp'.name][2]
        /\ resp'.kind = "PolicyNotFound" => resp'.status = 404 /\ resp'.body = <<>>
        /\ (resp'.name \notin DOMAIN minio \/ minio[resp'.name] = NoPolicy)
              => resp'.kind # "Policy" ]_vars
\* a policy has been read from a provisioned bucket by a user who does not
\* own it
C31_Witness ==
  /\ resp.op = "policy"
  /\ resp.kind = "Policy"
  /\ ~faulted
  /\ Provisioned(resp.name)
  /\ \E b \in Rows(resp.name) : b.userId # resp.userId

(***************************************************************************)
(* C32.  A create whose name, with the blanks around it removed, is not    *)
(* 3 to 63 characters of lowercase letters, digits and hyphens with no     *)
(* hyphen first or last, is answered 400 ValidationError by a step that    *)
(* starts no remote call and changes nothing; every create that goes on    *)
(* to a remote call carries a name that keeps the rule.                    *)
(***************************************************************************)
\* the naming constraint, on the text as given
Conforms(name) ==
  /\ Len(name) >= 3 /\ Len(name) <= 63
  /\ \A i \in DOMAIN name : name[i] \in LowerAlnum \cup {"-"}
  /\ name[1] # "-" /\ name[Len(name)] # "-"
\* the step answers a create without starting a remote call
CreateLookupAnswer == resp'.op = "create" /\ inflight' = inflight
C32_ValidationAsClaimed ==
  /\ \A name \in NameInputs : ~Conforms(name) => ~ValidName(name)
  /\ resp.kind = "ValidationError" => ~Conforms(resp.name)
C32_Validation ==
  /\ [](\A name \in NameInputs : ~Conforms(Trim(name)) <=> ~ValidName(name))
  /\ [][ /\ resp'.kind = "ValidationError" =>
              /\ resp'.status = 400
              /\ ~Conforms(resp'.name)
              /\ UNCHANGED <<users, buckets, minio, inflight>>
         /\ (CreateLookupAnswer /\ ~Conforms(resp'.name))
              => resp'.kind = "ValidationError"
         /\ \A q \in BagToSet(inflight') : Starts(q) => Conforms(q.name) ]_vars
\* a name one character over the limit has been turned down after a bucket
\* of a name at the limit was created
C32_Witness ==
  /\ resp.kind = "ValidationError"
  /\ Len(resp.name) = MaxNameLen + 1
  /\ Provisioned(Repeat("a", MaxNameLen))

(***************************************************************************)
(* C33.  No operation waits for another: whatever is in flight, a          *)
(* getBucketPolicy for any name can be answered in the next step, and      *)
(* every handler in flight can return from the call it awaits.  So the     *)
(* state between setBucketPolicy and the insert of a create can be         *)
(* observed: a getBucketPolicy answers 200 with the policy while the       *)
(* registry has no row of the name.                                        *)
(***************************************************************************)
C33_NoWaiting ==
  /\ HasRoom =>
       \A userId \in TokenIds, name \in RequestNames :
         ENABLED GetBucketPolicy(userId, name, FALSE)
  /\ \A q \in InFlight :
       ENABLED (\/ CreateUser(q, FALSE) \/ CreateMake(q, FALSE)
                \/ CreatePolicy(q, FALSE) \/ CreatePolicyRollback(q, FALSE)
                \/ CreateInsert(q, FALSE) \/ CreateInsertRollback(q, FALSE))
\* no remote call has failed; a create has stored its policy and awaits its
\* insert, and a getBucketPolicy of another user has just been answered with
\* that policy although the registry has no row of the name
C33_Witness ==
  /\ ~faulted
  /\ resp.op = "policy" /\ resp.kind = "Policy" /\ resp.status = 200
  /\ Rows(resp.name) = {}
  /\ \E q \in InFlight :
       /\ q.pc = "c_insert" /\ q.name = resp.name /\ q.userId # resp.userId
       /\ resp.body = OwnerPolicy(AccessKeyOf(q.userId), q.name)

(***************************************************************************)
(* C34.  When no remote call fails for an external reason, in every state  *)
(* with no request in flight the store has a bucket of a name exactly when *)
(* the registry has a row of that name.                                    *)
(***************************************************************************)
C34_QuiescentAgreement ==
  Quiescent => \A n \in Names : bucketExists(n) <=> Rows(n) # {}

(***************************************************************************)
(* C35.  Of the deletes of one name by its owner that are in flight        *)
(* together at most one answers 200: the others answer an error, and none  *)
(* of them removes the bucket or the row of a later create that succeeded. *)
(***************************************************************************)
C35_OneDeleteWins ==
  \A n \in Names : okDeletes[n] <= 1

(***************************************************************************)
(* C36.  Signup is all-or-nothing: a signup that answers an error after    *)
(* its lookup (the storage user, the insert or the initial policy failed)  *)
(* leaves no User row of its own, so that a retry is not answered 409.     *)
(***************************************************************************)
C36_AllOrNothing ==
  [][ \A q \in InFlight :
        (q.pc \in {"s_create", "s_policy"} /\ Stops(q) /\ resp'.status # 201)
          => /\ resp'.op = "signup"
             /\ q.user \notin users'
             /\ \A u \in users' \ users : u.email # ToLowerCase(q.name) ]_vars

(***************************************************************************)
(* C37.  No response that carries user data (signup, login, user info,     *)
(* list users, list buckets, create bucket) has the fields passwordHash    *)
(* or minioSecretKey in its body.                                          *)
(***************************************************************************)
SecretFields == {"passwordHash", "minioSecretKey"}
Discloses(record) == DOMAIN record \cap SecretFields # {}
C37_NoSecretInResponse ==
  /\ resp.kind = "SignedUp" => ~Discloses(resp.body)
  /\ resp.kind = "LoggedIn" => ~Discloses(resp.body.user)
  /\ resp.kind = "Info" => ~Discloses(resp.body)
  /\ resp.kind = "Users" => \A i \in DOMAIN resp.body : ~Discloses(resp.body[i])
  /\ resp.kind = "Buckets" =>
       \A b \in resp.body : ~Discloses(b) /\ ~Discloses(b.user)
  /\ resp.kind = "Created" =>
       ~Discloses(resp.body) /\ ~Discloses(resp.body.user)

(***************************************************************************)
(* C38.  A login that fails for its credentials answers the same 401       *)
(* InvalidCredentials whether the email is unknown or the email is known   *)
(* and the password is not the user's, so that the answer does not tell    *)
(* whether the email is registered; a login changes no state.              *)
(***************************************************************************)
C38_LoginReveals ==
  [][ resp'.op = "login" =>
        /\ UNCHANGED <<users, buckets, minio, inflight>>
        /\ (~faulted' /\ resp'.status \notin {200, 400}) =>
             resp' = LoginResponse(resp'.name, 401, "InvalidCredentials", <<>>) ]_vars

(***************************************************************************)
(* C39.  For every stored user the username that getUserInfo,              *)
(* getUserPolicy, updateUserPolicy and listAllUsers derive from the email  *)
(* is the username of signup (getUsernameFromEmail), and deriving it never *)
(* raises: these handlers answer 500 InternalError only when a remote call *)
(* has failed.                                                             *)
(***************************************************************************)
C39_SameUsername ==
  /\ resp.kind = "Info" =>
       resp.body.minio.username = getUsernameFromEmail(resp.body.email)
  /\ resp.kind = "UserPolicy" =>
       \E u \in users : /\ u.id = resp.userId
                        /\ resp.body.username = getUsernameFromEmail(u.email)
  /\ resp.kind = "Users" =>
       \A i \in DOMAIN resp.body :
         DOMAIN resp.body[i].minio # {} =>
           resp.body[i].minio.username = getUsernameFromEmail(resp.body[i].email)
  /\ (resp.op \in {"info", "userPolicy", "updatePolicy"}
        /\ resp.kind = "InternalError") => faulted

(***************************************************************************)
(* C10.  When delete answers 200, the storage bucket does not exist and    *)
(* the registry has no row of the name.                                    *)
(***************************************************************************)
C10_DeleteLeavesNothing ==
  resp.kind = "Deleted" => Absent(resp.name)

====
